---- MODULE Spec2Model ----
(***************************************************************************)
(* A model of src/main.py: the scraper of the GitHub topics index and of   *)
(* each topic's repository listing.                                        *)
(*                                                                         *)
(* Text is a sequence of one-character strings, so that strip(), lower(),  *)
(* indexing and slicing are computed and not assumed.  Python integers are *)
(* unbounded and float() is an IEEE-754 binary64: both are computed on     *)
(* natural numbers held as little-endian sequences of limbs.               *)
(***************************************************************************)
EXTENDS Integers, Sequences, FiniteSets, TLC

VARIABLES
    text,         \* parse_star_count: the argument `stars`
    parsed,       \* parse_star_count: what the call did (NotCalled before it)
    pc,           \* main / get_repo_info: position in the code
    doc,          \* the topics page as fetched by get_topics
    topics_data,  \* main: the value get_topics returned
    t,            \* main: 1-based position of the for loop over the topics
    repo_tags,    \* get_repo_info: soup.find_all("h3", ...)
    star_tags,    \* get_repo_info: soup.find_all("span", ...)
    i,            \* get_repo_info: the loop variable (1-based)
    repo_dict,    \* get_repo_info: the four columns
    origin,       \* history: per appended row, the entry and star index used
    star_reads,   \* history: the indices star_tags was subscripted with
    caught,       \* get_repo_info: the exception its handlers caught, or "none"
    repo_data,    \* main: the value get_repo_info returned
    calls,        \* history: requests.get and save_to_csv invocations, in order
    failed        \* history: what has failed so far, of "fetch", "extract"
                  \* and "write"

vars == <<text, parsed, pc, doc, topics_data, t, repo_tags, star_tags, i,
          repo_dict, origin, star_reads, caught, repo_data, calls, failed>>

(***************************************************************************)
(* Bounds.                                                                 *)
(***************************************************************************)
MaxLen == 4       \* longest enumerated argument of parse_star_count
MaxTopics == 2    \* most nodes of one kind on the topics page
MaxEntries == 3   \* most entry nodes, and most star nodes, on a listing page

(***************************************************************************)
(* str: strip(), lower(), s[-1], s[:-1].                                   *)
(***************************************************************************)
Whitespace == {" ", "\t", "\n"}

Digits == <<"0", "1", "2", "3", "4", "5", "6", "7", "8", "9">>

UpperLetters == <<"A", "B", "C", "D", "E", "F", "G", "H", "I", "J", "K", "L", "M",
                  "N", "O", "P", "Q", "R", "S", "T", "U", "V", "W", "X", "Y", "Z">>

LowerLetters == <<"a", "b", "c", "d", "e", "f", "g", "h", "i", "j", "k", "l", "m",
                  "n", "o", "p", "q", "r", "s", "t", "u", "v", "w", "x", "y", "z">>

RECURSIVE LStrip(_)
LStrip(s) ==
    IF s # <<>> /\ Head(s) \in Whitespace THEN LStrip(Tail(s)) ELSE s

RECURSIVE RStrip(_)
RStrip(s) ==
    IF s # <<>> /\ s[Len(s)] \in Whitespace
    THEN RStrip(SubSeq(s, 1, Len(s) - 1))
    ELSE s

Strip(s) == RStrip(LStrip(s))

LowerChar(c) ==
    IF \E n \in DOMAIN UpperLetters : UpperLetters[n] = c
    THEN LowerLetters[CHOOSE n \in DOMAIN UpperLetters : UpperLetters[n] = c]
    ELSE c

Lower(s) == [n \in DOMAIN s |-> LowerChar(s[n])]

IsDigit(c) == \E n \in DOMAIN Digits : Digits[n] = c

DigitValue(c) == (CHOOSE n \in DOMAIN Digits : Digits[n] = c) - 1

IsAlnum(c) ==
    \/ IsDigit(c)
    \/ \E n \in DOMAIN UpperLetters : UpperLetters[n] = c
    \/ \E n \in DOMAIN LowerLetters : LowerLetters[n] = c

(***************************************************************************)
(* int: a natural number is its little-endian sequence of limbs, without a *)
(* most significant zero limb; zero is the empty sequence.                 *)
(***************************************************************************)
Base == 10 * 10 * 10

RECURSIVE AddCarry(_, _, _)
AddCarry(a, b, c) ==
    IF a = <<>> /\ b = <<>>
    THEN IF c = 0 THEN <<>> ELSE <<c>>
    ELSE LET x == (IF a = <<>> THEN 0 ELSE Head(a))
                  + (IF b = <<>> THEN 0 ELSE Head(b)) + c
         IN  <<x % Base>> \o AddCarry(IF a = <<>> THEN <<>> ELSE Tail(a),
                                      IF b = <<>> THEN <<>> ELSE Tail(b),
                                      x \div Base)

Add(a, b) == AddCarry(a, b, 0)

RECURSIVE MulSmallCarry(_, _, _)
MulSmallCarry(a, k, c) ==
    IF a = <<>>
    THEN IF c = 0 THEN <<>> ELSE <<c % Base>> \o MulSmallCarry(<<>>, k, c \div Base)
    ELSE LET x == Head(a) * k + c
         IN  <<x % Base>> \o MulSmallCarry(Tail(a), k, x \div Base)

\* a * k for a limb-sized k
MulSmall(a, k) == IF k = 0 THEN <<>> ELSE MulSmallCarry(a, k, 0)

RECURSIVE Mul(_, _)
Mul(a, b) ==
    IF a = <<>> \/ b = <<>>
    THEN <<>>
    ELSE LET rest == Mul(a, Tail(b))
         IN  Add(MulSmall(a, Head(b)), IF rest = <<>> THEN <<>> ELSE <<0>> \o rest)

\* quotient and remainder of a by a limb-sized k
RECURSIVE DivSmall(_, _)
DivSmall(a, k) ==
    IF a = <<>>
    THEN [q |-> <<>>, r |-> 0]
    ELSE LET hi == DivSmall(Tail(a), k)
             cur == hi.r * Base + Head(a)
         IN  [q |-> IF hi.q = <<>> /\ cur \div k = 0
                    THEN <<>>
                    ELSE <<cur \div k>> \o hi.q,
              r |-> cur % k]

RECURSIVE LessFromTop(_, _, _)
LessFromTop(a, b, n) ==
    IF n = 0 THEN FALSE
    ELSE IF a[n] # b[n] THEN a[n] < b[n]
    ELSE LessFromTop(a, b, n - 1)

Less(a, b) ==
    IF Len(a) # Len(b) THEN Len(a) < Len(b) ELSE LessFromTop(a, b, Len(a))

RECURSIVE FromInt(_)
FromInt(n) == IF n = 0 THEN <<>> ELSE <<n % Base>> \o FromInt(n \div Base)

RECURSIVE Pow2(_)
Pow2(n) ==
    IF n = 0 THEN <<1>>
    ELSE IF n >= 9 THEN MulSmall(Pow2(n - 9), 512)
    ELSE MulSmall(Pow2(n - 1), 2)

IsOdd(a) == a # <<>> /\ Head(a) % 2 = 1

\* the natural number a string of decimal digits denotes
RECURSIVE FromDigits(_)
FromDigits(ds) ==
    IF ds = <<>>
    THEN <<>>
    ELSE Add(MulSmall(FromDigits(SubSeq(ds, 1, Len(ds) - 1)), 10),
             FromInt(DigitValue(ds[Len(ds)])))

\* a \div 10^d, and whether anything was cut off
RECURSIVE DivPow10(_, _, _)
DivPow10(a, d, inexact) ==
    IF d = 0
    THEN [q |-> a, inexact |-> inexact]
    ELSE LET s == DivSmall(a, 10)
         IN  DivPow10(s.q, d - 1, inexact \/ s.r # 0)

\* a \div 2^n
RECURSIVE ShiftRight(_, _)
ShiftRight(a, n) ==
    IF n = 0 THEN a
    ELSE IF n >= 9 THEN ShiftRight(DivSmall(a, 512).q, n - 9)
    ELSE ShiftRight(DivSmall(a, 2).q, n - 1)

(***************************************************************************)
(* float: float(str) is the binary64 nearest to the decimal numeral (ties  *)
(* to even), float * float is the binary64 nearest to the exact product,   *)
(* int(float) drops the fraction.  A finite float is m * 2^e with m < 2^53.*)
(***************************************************************************)
TwoTo53 == Pow2(53)

TwoTo54 == Pow2(54)

TwoTo63 == Pow2(63)

\* halve a until it has at most 54 bits, remembering whether a one was lost
RECURSIVE Normalize(_, _, _)
Normalize(a, e, inexact) ==
    IF Less(a, TwoTo54)
    THEN [m |-> a, e |-> e, inexact |-> inexact]
    ELSE IF Less(a, TwoTo63)
    THEN LET h == DivSmall(a, 2)
         IN  Normalize(h.q, e + 1, inexact \/ h.r # 0)
    ELSE LET h == DivSmall(a, 512)
         IN  Normalize(h.q, e + 9, inexact \/ h.r # 0)

\* round half to even: h is the quotient and remainder of the 54 bits by 2
RoundHalfEven(h, e, inexact) ==
    [m |-> IF h.r = 1 /\ (inexact \/ IsOdd(h.q)) THEN Add(h.q, <<1>>) ELSE h.q,
     e |-> e + 1]

RoundNormalized(n) ==
    IF Less(n.m, TwoTo53)
    THEN [m |-> n.m, e |-> n.e]
    ELSE RoundHalfEven(DivSmall(n.m, 2), n.e, n.inexact)

\* the binary64 nearest to (a + f) * 2^e, 0 <= f < 1, f # 0 iff inexact
RoundToDouble(a, e, inexact) == RoundNormalized(Normalize(a, e, inexact))

Dots(body) == {n \in DOMAIN body : body[n] = "."}

\* a decimal numeral: digits with at most one point and at least one digit
IsNumeral(body) ==
    /\ \A n \in DOMAIN body : IsDigit(body[n]) \/ body[n] = "."
    /\ Cardinality(Dots(body)) <= 1
    /\ \E n \in DOMAIN body : IsDigit(body[n])

IntDigits(body) ==
    IF Dots(body) = {} THEN body
    ELSE SubSeq(body, 1, (CHOOSE n \in Dots(body) : TRUE) - 1)

FracDigits(body) ==
    IF Dots(body) = {} THEN <<>>
    ELSE SubSeq(body, (CHOOSE n \in Dots(body) : TRUE) + 1, Len(body))

Unsigned(s) == IF s # <<>> /\ Head(s) \in {"+", "-"} THEN Tail(s) ELSE s

IsNegative(s) == s # <<>> /\ Head(s) = "-"

\* the numerals float() accepts besides the decimal ones
Infinities == {<<"i", "n", "f">>, <<"i", "n", "f", "i", "n", "i", "t", "y">>}

NaNs == {<<"n", "a", "n">>}

Float(kind, neg, r) == [kind |-> kind, neg |-> neg, m |-> r.m, e |-> r.e]

Zero == [m |-> <<>>, e |-> 0]

\* the binary64 nearest to n / 10^d: n * 2^scale / 10^d has 54 bits or more
NearestDouble(n, d, scale) ==
    RoundNormalized(
        Normalize(DivPow10(Mul(n, Pow2(scale)), d, FALSE).q, 0 - scale,
                  DivPow10(Mul(n, Pow2(scale)), d, FALSE).inexact))

FloatOfBody(body, neg) ==
    IF Lower(body) \in Infinities THEN Float("inf", neg, Zero)
    ELSE IF Lower(body) \in NaNs THEN Float("nan", neg, Zero)
    ELSE IF ~IsNumeral(body) THEN Float("ValueError", neg, Zero)
    ELSE Float("finite", neg,
               NearestDouble(FromDigits(IntDigits(body) \o FracDigits(body)),
                             Len(FracDigits(body)),
                             54 + 4 * Len(FracDigits(body))))

\* float(s) for a str s without exponent and without digit separators
PyFloat(s) == FloatOfBody(Unsigned(Strip(s)), IsNegative(Strip(s)))

\* x * k for a finite float x and an int k that a float holds exactly
FloatMul(x, k) ==
    Float("finite", x.neg, RoundToDouble(Mul(x.m, FromInt(k)), x.e, FALSE))

\* int(x) for a finite float x: the magnitude, truncated
IntOfFloat(x) == IF x.e >= 0 THEN Mul(x.m, Pow2(x.e)) ELSE ShiftRight(x.m, 0 - x.e)

(***************************************************************************)
(* parse_star_count                                                        *)
(***************************************************************************)
suffix_multipliers == ("k" :> 1000) @@ ("m" :> 1000000) @@ ("b" :> 1000000000)

NotCalled == [kind |-> "none", exc |-> "none", arg |-> <<>>, neg |-> FALSE, mag |-> <<>>]

Return(neg, mag) ==
    [kind |-> "return", exc |-> "none", arg |-> <<>>, neg |-> neg /\ mag # <<>>, mag |-> mag]

Raise(exc, arg) ==
    [kind |-> "raise", exc |-> exc, arg |-> arg, neg |-> FALSE, mag |-> <<>>]

\* line 179: int(x * multiplier) for the float x; lines 180-182: a
\* ValueError is raised again with the text, anything else passes through
IntOfProduct(x, stars, multiplier) ==
    CASE x.kind = "ValueError" -> Raise("ValueError", stars)
      [] x.kind = "nan" -> Raise("ValueError", stars)
      [] x.kind = "inf" -> Raise("OverflowError", <<>>)
      [] OTHER -> Return(x.neg, IntOfFloat(FloatMul(x, multiplier)))

\* lines 178-182
ConvertStars(stars, multiplier) == IntOfProduct(PyFloat(stars), stars, multiplier)

\* lines 173-182, for the stripped and lowered text
ParseLowered(stars) ==
    IF stars = <<>>
    THEN Raise("IndexError", <<>>)                           \* line 174: stars[-1]
    ELSE IF stars[Len(stars)] \in DOMAIN suffix_multipliers
    THEN ConvertStars(SubSeq(stars, 1, Len(stars) - 1),
                      suffix_multipliers[stars[Len(stars)]])
    ELSE ConvertStars(stars, 1)

\* line 172: stars.strip().lower()
parse_star_count(stars) == ParseLowered(Lower(Strip(stars)))

(***************************************************************************)
(* Documents.  A node has its text and its attributes; an entry node has   *)
(* its <a> children.                                                       *)
(***************************************************************************)
BASE_URL == "https://github.com"

EmptyDict == [k \in {} |-> <<>>]

\* a test for rows instead of keys
HasRows(d) == \E k \in DOMAIN d : d[k] # <<>>

\* bool(d) of a dict d
Truthy(d) == DOMAIN d # {}

\* all sequences over S of length at most n
SeqsUpTo(S, n) == UNION {[1..k -> S] : k \in 0..n}

\* tag.get(name) is None
Lacks(tag, name) == name \notin DOMAIN tag.attrs

\* the nodes the topics page may hold
TopicTitleNodes == {[text |-> <<" ", "a", "i", " ">>], [text |-> <<"c", "+", "+">>]}

TopicDescNodes == {[text |-> <<"d", " ">>]}

TopicLinkNodes == {[attrs |-> ("href" :> "/topics/x")], [attrs |-> EmptyDict]}

NoDoc == [fetch |-> "none", titles |-> <<>>, descs |-> <<>>, links |-> <<>>]

\* what requests.get(topics_url) may bring: a page, or a RequestException
TopicPages ==
    [fetch : {"ok"},
     titles : SeqsUpTo(TopicTitleNodes, MaxTopics),
     descs : SeqsUpTo(TopicDescNodes, MaxTopics),
     links : SeqsUpTo(TopicLinkNodes, MaxTopics)]
    \cup {[NoDoc EXCEPT !.fetch = "RequestException"]}

\* the nodes a listing page may hold
OwnerLink == [text |-> <<" ", "o">>, attrs |-> ("href" :> "/o")]

RepoLink == [text |-> <<"r", " ">>, attrs |-> ("href" :> "/o/r")]

OtherOwnerLink == [text |-> <<"p">>, attrs |-> ("href" :> "/p")]

OtherRepoLink == [text |-> <<"s">>, attrs |-> ("href" :> "/p/s")]

EntryNodes ==
    { [a |-> <<OwnerLink, RepoLink>>],
      [a |-> <<OtherOwnerLink, OtherRepoLink>>],
      [a |-> <<OwnerLink>>],
      [a |-> <<OwnerLink, [text |-> <<"r", " ">>, attrs |-> EmptyDict]>>] }

StarNodes ==
    { [text |-> <<" ", "1", ".", "2", "k">>],
      [text |-> <<"9", "3", "4">>],
      [text |-> <<"a", "b", "c">>] }

\* what requests.get(url) may bring for a topic: a page, or a RequestException
ListingPages ==
    [fetch : {"ok"},
     entries : SeqsUpTo(EntryNodes, MaxEntries),
     stars : SeqsUpTo(StarNodes, MaxEntries)]
    \cup {[fetch |-> "RequestException", entries |-> <<>>, stars |-> <<>>]}

ShortestOf(a, b, c) ==
    CHOOSE n \in {Len(a), Len(b), Len(c)} : n <= Len(a) /\ n <= Len(b) /\ n <= Len(c)

(***************************************************************************)
(* get_topics                                                              *)
(***************************************************************************)
\* a get_topics that pairs what it can: the shortest list decides
ZippedTopics(topics, descriptions, urls) ==
    [title |-> SubSeq(topics, 1, ShortestOf(topics, descriptions, urls)),
     description |-> SubSeq(descriptions, 1, ShortestOf(topics, descriptions, urls)),
     url |-> SubSeq(urls, 1, ShortestOf(topics, descriptions, urls))]

\* lines 96-102, for the three lists
CheckedTopics(topics, descriptions, urls) ==
    IF ~(Len(topics) = Len(descriptions) /\ Len(descriptions) = Len(urls))
    THEN EmptyDict                                            \* lines 97-99
    ELSE [title |-> topics, description |-> descriptions, url |-> urls]

get_topics(d) ==
    IF d.fetch # "ok"
    THEN EmptyDict                                            \* line 71
    ELSE IF \E n \in DOMAIN d.links : Lacks(d.links[n], "href")
    THEN EmptyDict                                            \* lines 92, 104-107
    ELSE CheckedTopics([n \in DOMAIN d.titles |-> Strip(d.titles[n].text)],
                       [n \in DOMAIN d.descs |-> Strip(d.descs[n].text)],
                       [n \in DOMAIN d.links |-> BASE_URL \o d.links[n].attrs["href"]])

(***************************************************************************)
(* get_repo_info                                                           *)
(***************************************************************************)
NewRepoDict == [username |-> <<>>, repo_name |-> <<>>, stars |-> <<>>, repo_url |-> <<>>]

Step(exc, dict, read) == [exc |-> exc, dict |-> dict, read |-> read]

\* line 138: parse_star_count(star_tags[i].text.strip()), per star node
star_counts == [node \in StarNodes |-> parse_star_count(Strip(node.text))]

\* the int parse_star_count returned
IntValue(p) == [neg |-> p.neg, mag |-> p.mag]

\* lines 138-143, given what parse_star_count did
AppendRow(dict, a_tags, p) ==
    IF p.kind = "raise"
    THEN Step(p.exc, dict, TRUE)
    ELSE Step("none",
              [username |-> Append(dict.username, Strip(a_tags[1].text)),
               repo_name |-> Append(dict.repo_name, Strip(a_tags[2].text)),
               stars |-> Append(dict.stars, IntValue(p)),
               repo_url |-> Append(dict.repo_url, BASE_URL \o a_tags[2].attrs["href"])],
              TRUE)

\* a loop body that pairs every entry with the first star node
ExtractRowFirstStar(dict, a_tags, stars, n) ==
    IF Len(a_tags) < 1 THEN Step("IndexError", dict, FALSE)
    ELSE IF Len(a_tags) < 2 THEN Step("IndexError", dict, FALSE)
    ELSE IF Lacks(a_tags[2], "href") THEN Step("TypeError", dict, FALSE)
    ELSE IF n > Len(stars) THEN Step("IndexError", dict, TRUE)
    ELSE AppendRow(dict, a_tags, star_counts[stars[1]])

\* a loop body that appends the username as soon as it has it
ExtractRowEagerAppend(dict, a_tags, stars, n) ==
    IF Len(a_tags) < 1 THEN Step("IndexError", dict, FALSE)
    ELSE IF Len(a_tags) < 2
    THEN Step("IndexError",
              [dict EXCEPT !.username = Append(@, Strip(a_tags[1].text))], FALSE)
    ELSE IF Lacks(a_tags[2], "href") THEN Step("TypeError", dict, FALSE)
    ELSE IF n > Len(stars) THEN Step("IndexError", dict, TRUE)
    ELSE AppendRow(dict, a_tags, star_counts[stars[n]])

\* lines 135-143, for the <a> children of the entry
ExtractRow(dict, a_tags, stars, n) ==
    IF Len(a_tags) < 1 THEN Step("IndexError", dict, FALSE)              \* line 135
    ELSE IF Len(a_tags) < 2 THEN Step("IndexError", dict, FALSE)         \* line 136
    ELSE IF Lacks(a_tags[2], "href") THEN Step("TypeError", dict, FALSE) \* line 137
    ELSE IF n > Len(stars) THEN Step("IndexError", dict, TRUE)           \* line 138
    ELSE AppendRow(dict, a_tags, star_counts[stars[n]])

\* lines 134-143, one pass of the loop body for entry n: the exception it
\* raises or "none", the columns after it, and whether star_tags[n] was
\* evaluated
LoopBody(dict, tags, stars, n) == ExtractRow(dict, tags[n].a, stars, n)

\* a get_repo_info that gives {} up after an exception, as get_topics does
ReturnNothingOnError(dict, exc) == IF exc # "none" THEN EmptyDict ELSE dict

\* line 154: return repo_dict, whatever was caught
ReturnValue(dict, exc) == dict

Result(dict, exc) == [dict |-> ReturnValue(dict, exc), caught |-> exc]

\* lines 133-152: the passes from entry n on, until one raises
RECURSIVE RunLoop(_, _, _, _)
RECURSIVE AfterPass(_, _, _, _)
RunLoop(dict, tags, stars, n) ==
    IF n > Len(tags)
    THEN Result(dict, "none")
    ELSE AfterPass(LoopBody(dict, tags, stars, n), tags, stars, n)

AfterPass(s, tags, stars, n) ==
    IF s.exc # "none" THEN Result(s.dict, s.exc) ELSE RunLoop(s.dict, tags, stars, n + 1)

\* lines 120-154: the returned columns, and the exception the handlers caught
get_repo_info(page) ==
    IF page.fetch # "ok"
    THEN Result(NewRepoDict, page.fetch)                      \* lines 147-149
    ELSE RunLoop(NewRepoDict, page.entries, page.stars, 1)

\* everything get_repo_info can do on the pages requests.get may bring
RepoResults == {get_repo_info(page) : page \in ListingPages}

(***************************************************************************)
(* save_to_csv, sanitize_filename                                          *)
(***************************************************************************)
\* pd.DataFrame(data) takes columns of one length only
Rectangular(data) ==
    \A k1, k2 \in DOMAIN data : Len(data[k1]) = Len(data[k2])

\* lines 193-199: whether the file was written; nothing is raised
save_to_csv(data, io_ok) == Rectangular(data) /\ io_ok

sanitize_filename(name) ==
    Strip([n \in DOMAIN name |->
              IF IsAlnum(name[n]) \/ name[n] \in {" ", ".", "_", "-", "(", ")"}
              THEN name[n]
              ELSE "_"])

(***************************************************************************)
(* The state before main runs.                                             *)
(***************************************************************************)
MainInit ==
    /\ pc = "start"
    /\ doc = NoDoc
    /\ topics_data = EmptyDict
    /\ t = 0
    /\ repo_tags = <<>>
    /\ star_tags = <<>>
    /\ i = 0
    /\ repo_dict = EmptyDict
    /\ origin = <<>>
    /\ star_reads = {}
    /\ caught = "none"
    /\ repo_data = EmptyDict
    /\ calls = <<>>
    /\ failed = {}

(***************************************************************************)
(* parse_star_count on its own: every argument over Alphabet of at most    *)
(* MaxLen characters, and the arguments of Fixtures.                       *)
(***************************************************************************)
Alphabet == {"1", "4", ".", "k", "m", "K", "a", " ", "-"}

Fixtures ==
    { <<"0">>, <<"9", "3", "4">>, <<"1", ".", "2", "k">>, <<"2", "m">>,
      <<"1", ".", "5", "b">>, <<"1", ".", "9", "9", "9", "k">>,
      <<"3", "K">>, <<"3", "k">>, <<"a", "b", "c">>, <<"3", "2", ".", "3", "k">>,
      <<"i", "n", "f">>, <<"n", "a", "n">>, <<"1", "k", "k">> }

Inputs == SeqsUpTo(Alphabet, MaxLen) \cup Fixtures

ParseInit ==
    /\ text \in Inputs
    /\ parsed = NotCalled
    /\ MainInit

ParseStarCount ==
    /\ parsed = NotCalled
    /\ parsed' = parse_star_count(text)
    /\ UNCHANGED <<text, pc, doc, topics_data, t, repo_tags, star_tags, i,
                   repo_dict, origin, star_reads, caught, repo_data, calls, failed>>

ParseNext == ParseStarCount

ParseSpec == ParseInit /\ [][ParseNext]_vars

(***************************************************************************)
(* get_repo_info on its own, a pass of its loop at a time.                 *)
(***************************************************************************)
RepoInit ==
    /\ text = <<>>
    /\ parsed = NotCalled
    /\ MainInit

\* lines 120-131
RepoFetch ==
    /\ pc = "start"
    /\ \E page \in ListingPages :
         /\ repo_tags' = page.entries
         /\ star_tags' = page.stars
         /\ caught' = IF page.fetch = "ok" THEN "none" ELSE page.fetch
         /\ pc' = IF page.fetch = "ok" THEN "loop" ELSE "return"
    /\ repo_dict' = NewRepoDict
    /\ i' = 1
    /\ UNCHANGED <<text, parsed, doc, topics_data, t, origin, star_reads,
                   repo_data, calls, failed>>

\* lines 133-143: one pass of the loop; an exception leaves for line 150
RepoLoop ==
    /\ pc = "loop"
    /\ i <= Len(repo_tags)
    /\ \E s \in {LoopBody(repo_dict, repo_tags, star_tags, i)} :
           /\ repo_dict' = s.dict
           /\ star_reads' = IF s.read THEN star_reads \cup {i} ELSE star_reads
           /\ origin' = IF s.exc = "none"
                        THEN Append(origin, [entry |-> i, star |-> i])
                        ELSE origin
           /\ caught' = s.exc
           /\ pc' = IF s.exc = "none" THEN "loop" ELSE "return"
           /\ i' = IF s.exc = "none" THEN i + 1 ELSE i
    /\ UNCHANGED <<text, parsed, doc, topics_data, t, repo_tags, star_tags,
                   repo_data, calls, failed>>

\* line 145: the loop is over
RepoLoopEnd ==
    /\ pc = "loop"
    /\ i > Len(repo_tags)
    /\ pc' = "return"
    /\ UNCHANGED <<text, parsed, doc, topics_data, t, repo_tags, star_tags, i,
                   repo_dict, origin, star_reads, caught, repo_data, calls, failed>>

\* line 154
RepoReturn ==
    /\ pc = "return"
    /\ repo_data' = ReturnValue(repo_dict, caught)
    /\ pc' = "returned"
    /\ UNCHANGED <<text, parsed, doc, topics_data, t, repo_tags, star_tags, i,
                   repo_dict, origin, star_reads, caught, calls, failed>>

RepoNext ==
    \/ RepoFetch
    \/ RepoLoop
    \/ RepoLoopEnd
    \/ RepoReturn

RepoSpec == RepoInit /\ [][RepoNext]_vars

(***************************************************************************)
(* main                                                                    *)
(***************************************************************************)
Init ==
    /\ text = <<>>
    /\ parsed = NotCalled
    /\ MainInit

Call(op, topic) == [op |-> op, topic |-> topic]

\* a save_to_csv whose exception reaches the handler of main at line 48
AfterSaveRaising(saved) == IF saved THEN "for" ELSE "done"

\* where main goes on after save_to_csv: lines 197-199 keep every exception
AfterSave(saved) == "for"

\* line 35: topics_data = get_topics(topics_url); line 36
GetTopics ==
    /\ pc = "start"
    /\ \E d \in TopicPages :
         /\ doc' = d
         /\ topics_data' = get_topics(d)
         /\ failed' = IF d.fetch = "ok" THEN failed ELSE failed \cup {"fetch"}
         /\ pc' = IF Truthy(topics_data') THEN "save_topics" ELSE "done"
    /\ calls' = Append(calls, Call("get", 0))
    /\ UNCHANGED <<text, parsed, t, repo_tags, star_tags, i, repo_dict, origin,
                   star_reads, caught, repo_data>>

\* line 38: save_to_csv(topics_data, "data/topics.csv"); line 41 starts the loop
SaveTopics ==
    /\ pc = "save_topics"
    /\ \E io_ok \in BOOLEAN :
         /\ failed' = IF save_to_csv(topics_data, io_ok)
                      THEN failed
                      ELSE failed \cup {"write"}
         /\ pc' = AfterSave(save_to_csv(topics_data, io_ok))
    /\ calls' = Append(calls, Call("save", 0))
    /\ t' = 1
    /\ UNCHANGED <<text, parsed, doc, topics_data, repo_tags, star_tags, i,
                   repo_dict, origin, star_reads, caught, repo_data>>

\* the pairs zip(topics_data["title"], topics_data["url"]) yields
Pairs == IF Len(topics_data["title"]) <= Len(topics_data["url"])
         THEN Len(topics_data["title"])
         ELSE Len(topics_data["url"])

\* lines 42-43: repo_data = get_repo_info(url); if repo_data
GetRepoInfo ==
    /\ pc = "for"
    /\ t <= Pairs
    /\ \E r \in RepoResults :
         /\ repo_data' = r.dict
         /\ caught' = r.caught
         /\ failed' = CASE r.caught = "none" -> failed
                         [] r.caught = "RequestException" -> failed \cup {"fetch"}
                         [] OTHER -> failed \cup {"extract"}
         /\ pc' = IF Truthy(r.dict) THEN "save_repo" ELSE "for"
         /\ t' = IF Truthy(r.dict) THEN t ELSE t + 1
    /\ calls' = Append(calls, Call("get", t))
    /\ UNCHANGED <<text, parsed, doc, topics_data, repo_tags, star_tags, i,
                   repo_dict, origin, star_reads>>

\* lines 44-47: save_to_csv(repo_data, filename); back to line 41
SaveRepo ==
    /\ pc = "save_repo"
    /\ \E io_ok \in BOOLEAN :
         /\ failed' = IF save_to_csv(repo_data, io_ok)
                      THEN failed
                      ELSE failed \cup {"write"}
         /\ pc' = AfterSave(save_to_csv(repo_data, io_ok))
    /\ calls' = Append(calls, Call("save", t))
    /\ t' = t + 1
    /\ caught' = "none"
    /\ repo_data' = EmptyDict
    /\ UNCHANGED <<text, parsed, doc, topics_data, repo_tags, star_tags, i,
                   repo_dict, origin, star_reads>>

\* line 41: the topics are exhausted
ForEnd ==
    /\ pc = "for"
    /\ t > Pairs
    /\ pc' = "done"
    /\ UNCHANGED <<text, parsed, doc, topics_data, t, repo_tags, star_tags, i,
                   repo_dict, origin, star_reads, caught, repo_data, calls, failed>>

Next ==
    \/ GetTopics
    \/ SaveTopics
    \/ GetRepoInfo
    \/ SaveRepo
    \/ ForEnd

Spec == Init /\ [][Next]_vars

\* main is one thread that runs to its end: a step that can be taken is taken
FairSpec == Spec /\ WF_vars(Next)

(***************************************************************************)
(* Properties.                                                             *)
(***************************************************************************)
Rows(d) == Len(d["username"])

Smaller(a, b) == IF a <= b THEN a ELSE b

\* entry n on its own: its two links, its star node and the star text are fine
EntryOk(n) == LoopBody(NewRepoDict, repo_tags, star_tags, n).exc = "none"

OkEntries == {n \in DOMAIN repo_tags : EntryOk(n)}

\* C1: get_repo_info skips exactly the entries that fail: the rows of the
\* returned batch are the entries that succeed on their own, one row each,
\* in document order, the entries after a failed one included.
C1_OnlyFailedEntriesSkipped ==
    pc = "returned" /\ caught # "RequestException" =>
        /\ Rows(repo_data) = Cardinality(OkEntries)
        /\ {origin[j].entry : j \in DOMAIN origin} = OkEntries
        /\ \A j, k \in DOMAIN origin : j < k => origin[j].entry < origin[k].entry

\* C2: get_topics returns nothing when the three extracted lists differ in
\* length, and exactly the three lists, whole and in order, when they agree.
C2_TopicsAllOrNothing ==
    doc.fetch = "ok" /\ (\A n \in DOMAIN doc.links : ~Lacks(doc.links[n], "href")) =>
        IF Len(doc.titles) = Len(doc.descs) /\ Len(doc.descs) = Len(doc.links)
        THEN topics_data =
                 [title |-> [n \in DOMAIN doc.titles |-> Strip(doc.titles[n].text)],
                  description |-> [n \in DOMAIN doc.descs |-> Strip(doc.descs[n].text)],
                  url |-> [n \in DOMAIN doc.links |->
                               BASE_URL \o doc.links[n].attrs["href"]]]
        ELSE topics_data = EmptyDict

\* C2 witness: two titles and one description were extracted, nothing returned
C2_Witness ==
    /\ doc.fetch = "ok"
    /\ Len(doc.titles) = 2 /\ Len(doc.descs) = 1 /\ Len(doc.links) = 2
    /\ \A n \in DOMAIN doc.links : ~Lacks(doc.links[n], "href")
    /\ topics_data = EmptyDict
    /\ pc = "done"

\* C3: when the entries and the star nodes differ in number, star_tags is
\* never subscripted past its end, and the returned batch has at most as many
\* rows as the shorter of the two.
C3_StarIndexInRange ==
    Len(repo_tags) # Len(star_tags) =>
        /\ \A n \in star_reads : n <= Len(star_tags)
        /\ pc = "returned" => Rows(repo_data) <= Smaller(Len(repo_tags), Len(star_tags))

\* C4: every row of the returned batch comes from one position n of the page:
\* its owner, name and url from entry n, its star count from star node n.
C4_RowsPositionallyAligned ==
    pc = "returned" =>
        /\ Len(origin) = Rows(repo_data)
        /\ \A j \in 1..Rows(repo_data) :
             \E n \in DOMAIN repo_tags \cap DOMAIN star_tags :
                /\ origin[j] = [entry |-> n, star |-> n]
                /\ Len(repo_tags[n].a) >= 2
                /\ repo_data["username"][j] = Strip(repo_tags[n].a[1].text)
                /\ repo_data["repo_name"][j] = Strip(repo_tags[n].a[2].text)
                /\ ~Lacks(repo_tags[n].a[2], "href")
                /\ repo_data["repo_url"][j] = BASE_URL \o repo_tags[n].a[2].attrs["href"]
                /\ parse_star_count(Strip(star_tags[n].text)).kind = "return"
                /\ repo_data["stars"][j] =
                       IntValue(parse_star_count(Strip(star_tags[n].text)))

\* C4 witness: two different rows were returned, and a later entry failed
C4_Witness ==
    /\ pc = "returned"
    /\ caught \notin {"none", "RequestException"}
    /\ Rows(repo_data) = 2
    /\ repo_data["username"][1] # repo_data["username"][2]
    /\ repo_data["stars"][1] # repo_data["stars"][2]

SameLength(d) == \A k1, k2 \in DOMAIN d : Len(d[k1]) = Len(d[k2])

\* C5: the columns of every batch get_topics or get_repo_info returns have
\* one length, also when an exception ended the loop of get_repo_info early.
C5_ColumnsEqualLength == SameLength(topics_data) /\ SameLength(repo_data)

\* C5 witness: the loop was interrupted after a row, and the batch returned
C5_Witness ==
    /\ pc = "save_repo"
    /\ caught \notin {"none", "RequestException"}
    /\ Rows(repo_data) >= 1
    /\ Len(topics_data["title"]) >= 1

\* the text parse_star_count converts: stripped, lowered, one suffix cut off
NumericPortion(s) ==
    IF Lower(Strip(s)) # <<>> /\ Lower(Strip(s))[Len(Lower(Strip(s)))] \in {"k", "m", "b"}
    THEN SubSeq(Lower(Strip(s)), 1, Len(Lower(Strip(s))) - 1)
    ELSE Lower(Strip(s))

\* an optionally signed decimal numeral, as float() reads it
IsDecimal(s) == IsNumeral(Unsigned(Strip(s)))

\* C6: parse_star_count raises the ValueError that carries the suffix-stripped
\* text whenever the numeric portion is no decimal number, "" and "k" and
\* "abc" included, and raises nothing else.
C6_InvalidMagnitude ==
    parsed # NotCalled /\ ~IsDecimal(NumericPortion(text)) =>
        parsed = Raise("ValueError", NumericPortion(text))

\* the multiplier of the last character
MultiplierOf(s) ==
    IF Lower(Strip(s)) # <<>> /\ Lower(Strip(s))[Len(Lower(Strip(s)))] \in {"k", "m", "b"}
    THEN suffix_multipliers[Lower(Strip(s))[Len(Lower(Strip(s)))]]
    ELSE 1

\* floor(n * multiplier / 10^d) for the numeral with digits n, d of them
\* after the point
ExactProduct(body, multiplier) ==
    DivPow10(Mul(FromDigits(IntDigits(body) \o FracDigits(body)), FromInt(multiplier)),
             Len(FracDigits(body)), FALSE).q

\* C7: for a decimal number with at most one suffix character,
\* parse_star_count returns the number times the multiplier of the suffix,
\* truncated toward zero.
C7_ExactScaledValue ==
    parsed # NotCalled /\ IsDecimal(NumericPortion(text)) =>
        parsed = Return(IsNegative(Strip(NumericPortion(text))),
                        ExactProduct(Unsigned(Strip(NumericPortion(text))),
                                     MultiplierOf(text)))

Fetched(k) == \E n \in DOMAIN calls : calls[n] = Call("get", k)

Extracted(k) == Truthy(topics_data) /\ Len(topics_data["title"]) >= k

\* C8: once the index is extracted, the page of every topic is fetched, in
\* index order, whatever failed for the topics before it, and main does not
\* end before the last one.
C8_EveryTopicProcessed ==
    /\ \A k \in 1..MaxTopics : [](Extracted(k) => <>Fetched(k))
    /\ [](\A n, m \in DOMAIN calls :
             n < m /\ calls[n].op = "get" /\ calls[m].op = "get"
                 => calls[n].topic < calls[m].topic)
    /\ [](pc = "done" => \A k \in 1..MaxTopics : Extracted(k) => Fetched(k))

\* C8 witness: the page of the second topic was just fetched and extracted,
\* after the fetch of the first topic failed and a write failed
C8_Witness ==
    /\ calls = <<Call("get", 0), Call("save", 0), Call("get", 1), Call("save", 1),
                 Call("get", 2)>>
    /\ caught = "none"
    /\ "fetch" \in failed
    /\ "write" \in failed

FourColumns == {"username", "repo_name", "stars", "repo_url"}

\* C9: get_repo_info returns its four columns always, and empty ones when
\* the page has no entry or could not be fetched.
C9_FourColumnsAlways ==
    pc = "returned" =>
        /\ DOMAIN repo_data = FourColumns
        /\ (repo_tags = <<>> \/ caught = "RequestException") =>
               \A k \in FourColumns : repo_data[k] = <<>>

\* C9 witness: the fetch failed and get_repo_info returned
C9_Witness == pc = "returned" /\ caught = "RequestException"

\* C10: save_to_csv is called once for the index and then once after the
\* fetch of every topic, failed ones included, whose batch then has no rows;
\* no topic is fetched before the index is saved, none when get_topics
\* returned nothing.
C10_OneSavePerTopic ==
    /\ \A n \in DOMAIN calls :
         calls[n] = Call(IF n % 2 = 1 THEN "get" ELSE "save", (n - 1) \div 2)
    /\ pc = "done" =>
         Len(calls) = IF Truthy(topics_data) THEN 2 + 2 * Len(topics_data["title"]) ELSE 1
    /\ pc = "save_repo" /\ caught = "RequestException" => Rows(repo_data) = 0
    /\ pc = "for" => Len(calls) = 2 * t

\* C10 witness: the fetch of the second topic failed, and its batch is
\* handed to save_to_csv like the first
C10_Witness ==
    /\ pc = "save_repo"
    /\ t = 2
    /\ caught = "RequestException"
    /\ Rows(repo_data) = 0
    /\ calls = <<Call("get", 0), Call("save", 0), Call("get", 1), Call("save", 1),
                 Call("get", 2)>>

====
